---- MODULE Spec2Model ----
(***************************************************************************)
(* Model of backend/app/main.py: the in-memory session store and the two  *)
(* request handlers, create_session (POST /sessions) and                   *)
(* select_menu_item (POST /menus), together with the three OpenAI-backed   *)
(* generator helpers they call.                                            *)
(*                                                                         *)
(* Python strings are sequences of one-character strings, so that          *)
(* str.strip() is computed and not assumed.  Optional[str] is a sequence   *)
(* of length 0 (None) or 1.  Both handlers are "async def" bodies without  *)
(* any await: each runs to completion on the event loop, one action each.  *)
(***************************************************************************)
EXTENDS Integers, Sequences, FiniteSets, TLC

(* ------------------------------- state --------------------------------- *)

VARIABLES
    openai_client,    \* whether the module-level OpenAI client was initialised
    sessions,         \* the module-level dict: session id -> session state
    request,          \* the request the last handler run received
    generator_call,   \* the generator helper that run called, with its arguments
    generator_return, \* what that helper returned or raised
    response,         \* the response (or HTTPException) that run produced
    openai_reply,     \* what openai_client.chat.completions.create did in that run
    arrived,          \* the requests the server has accepted and not yet started
    running,          \* the handler runs that wait in chat.completions.create
    menuByDepth,      \* session id -> (depth -> the menu shown at that depth)
    lastContent,      \* session id -> the markdown shown, if content is shown
    sessions_before   \* the store as the last run found it

vars == <<openai_client, sessions, request, generator_call, generator_return, response,
          openai_reply, arrived, running, menuByDepth, lastContent, sessions_before>>

\* the event loop's part of the state
loop == <<arrived, running>>

\* the part of the state that back navigation keeps
navigation == <<menuByDepth, lastContent, sessions_before>>

\* what only the specifications that watch more of a run write
watched == <<openai_reply, loop, navigation>>

\* what a run that ends leaves behind
last_run == <<request, generator_call, generator_return, response>>

(* ------------------------------ bounds --------------------------------- *)

\* longest history (topic entry included) from which a selection is still made
MaxHistory == 4

\* the same, where the reply of the OpenAI call is watched too
MaxReplyHistory == 3

\* the same, where the requests wait for the event loop
MaxLoopHistory == 3

\* most requests that wait for the event loop at a time
MaxArrived == 1

\* longest history from which a selection is still made, with back navigation
MaxNavHistory == 3

\* longest history from which a selection is still made, with several sessions
MaxSharedHistory == 3

(* ------------------------------ inputs --------------------------------- *)

\* the ids uuid4 can give, and the ids a request can name (one is never given)
SessionIds == {"s1"}
RequestIds == SessionIds \cup {"s0"}

Topics == {<<"a">>, <<"b">>}

\* markdown the AI may send: blank, and padded
RawMarkdown == {<<" ">>, <<" ", "m">>}

\* selections a client may send: menu items as shown, and a padded one
Selections == {<<"a">>, <<"b">>, <<" ", "a">>}

\* a JSON list element: a string, or something that is not a string
JsonStr(s) == [isstr |-> TRUE, str |-> s]
NotAStr == [isstr |-> FALSE, str |-> <<>>]

\* the lists the AI may send: empty, all blank, no string, one item, two items,
\* the same item twice (once padded), and a list with items to drop
JsonLists ==
    { <<>>,
      <<JsonStr(<<" ">>)>>,
      <<NotAStr>>,
      <<JsonStr(<<" ", "a">>)>>,
      <<JsonStr(<<"b">>)>>,
      <<JsonStr(<<" ", "a">>), JsonStr(<<"b">>)>>,
      <<JsonStr(<<"a">>), JsonStr(<<" ", "a">>)>>,
      <<JsonStr(<<" ">>), JsonStr(<<"b">>), NotAStr, JsonStr(<<"a">>)>> }

\* a value under a key of the reply's JSON object ("missing": the key is absent)
ListValues ==
    {[kind |-> "missing", list |-> <<>>], [kind |-> "other", list |-> <<>>]}
        \cup {[kind |-> "list", list |-> l] : l \in JsonLists}

IntValues ==
    {[kind |-> "missing", int |-> 0], [kind |-> "other", int |-> 0]}
        \cup {[kind |-> "int", int |-> n] : n \in {1, 2, 3, 5}}

StrValues ==
    {[kind |-> "missing", str |-> <<>>], [kind |-> "other", str |-> <<>>]}
        \cup {[kind |-> "str", str |-> s] : s \in RawMarkdown}

NoList == [kind |-> "missing", list |-> <<>>]
NoInt == [kind |-> "missing", int |-> 0]
NoStr == [kind |-> "missing", str |-> <<>>]

\* what json.loads gives: a dict with (some of) the keys, or not a dict
NotADict ==
    [isdict |-> FALSE, categories |-> NoList, max_menu_depth |-> NoInt,
     subtopics |-> NoList, content_markdown |-> NoStr, further_topics |-> NoList]

MainMenuDicts ==
    {[isdict |-> TRUE, categories |-> c, max_menu_depth |-> d,
      subtopics |-> NoList, content_markdown |-> NoStr, further_topics |-> NoList] :
        c \in ListValues, d \in IntValues}

SubmenuDicts ==
    {[isdict |-> TRUE, categories |-> NoList, max_menu_depth |-> NoInt,
      subtopics |-> s, content_markdown |-> NoStr, further_topics |-> NoList] :
        s \in ListValues}

ContentDicts ==
    {[isdict |-> TRUE, categories |-> NoList, max_menu_depth |-> NoInt,
      subtopics |-> NoList, content_markdown |-> m, further_topics |-> f] :
        m \in StrValues, f \in ListValues}

\* what openai_client.chat.completions.create does: raise, or return a message
\* whose content is empty, is not JSON, or parses to `data`
OpenAIErrors == {"AuthenticationError", "RateLimitError", "APIConnectionError", "APIError", "Exception"}

ApiFailures ==
    {[raises |-> e, form |-> "empty", data |-> NotADict] : e \in OpenAIErrors}
        \cup {[raises |-> "none", form |-> f, data |-> NotADict] : f \in {"empty", "notjson", "json"}}

NoReply == [raises |-> "none", form |-> "empty", data |-> NotADict]

ApiReplies(dicts) ==
    ApiFailures \cup {[raises |-> "none", form |-> "json", data |-> d] : d \in dicts}

MainMenuReplies == ApiReplies(MainMenuDicts)
SubmenuReplies == ApiReplies(SubmenuDicts)
ContentReplies == ApiReplies(ContentDicts)

(* --------------------------- Python helpers ---------------------------- *)

None == <<>>
Some(x) == <<x>>

IsSpace(c) == c = " "

RECURSIVE lstrip(_)
lstrip(s) == IF s # <<>> /\ IsSpace(Head(s)) THEN lstrip(Tail(s)) ELSE s

RECURSIVE rstrip(_)
rstrip(s) ==
    IF s # <<>> /\ IsSpace(s[Len(s)]) THEN rstrip(SubSeq(s, 1, Len(s) - 1)) ELSE s

\* str.strip()
strip(s) == rstrip(lstrip(s))

\* x in list
Contains(list, x) == \E i \in 1..Len(list) : list[i] = x

\* session_data.get(key, default)
SessionGet(session_data, key, default) ==
    IF key \in DOMAIN session_data THEN session_data[key] ELSE default

\* as KeptElements, without the test that drops blank strings
KeptElements_NoBlankFilter(items) == SelectSeq(items, LAMBDA item : item.isstr)

\* [str(item).strip() for item in items if isinstance(item, str) and item.strip()]
KeptElements(items) == SelectSeq(items, LAMBDA item : item.isstr /\ strip(item.str) # <<>>)

StrippedItems(items) ==
    LET kept == KeptElements(items)
    IN  [i \in 1..Len(kept) |-> strip(kept[i].str)]

\* isinstance(e, cls) over the built-in exception classes the handlers name
Superclasses(e) ==
    CASE e = "ConnectionRefusedError" -> {"ConnectionRefusedError", "ConnectionError", "Exception"}
      [] e = "ConnectionAbortedError" -> {"ConnectionAbortedError", "ConnectionError", "Exception"}
      [] e = "ConnectionError" -> {"ConnectionError", "Exception"}
      [] e = "RuntimeError" -> {"RuntimeError", "Exception"}
      [] e = "ValueError" -> {"ValueError", "Exception"}
      [] OTHER -> {"Exception"}

IsInstance(e, cls) == cls \in Superclasses(e)

(* ---------------------------- the generators --------------------------- *)

GenResult(raised, items, depth, markdown) ==
    [raised |-> raised, menu_items |-> items, max_depth |-> depth, content_markdown |-> markdown]

Raised(e) == GenResult(e, <<>>, 0, <<>>)

\* the chain of except clauses that closes each generator's outer try
openai_error_handlers(r) ==
    CASE r.raised = "none" -> r
      [] r.raised = "AuthenticationError" -> Raised("ConnectionRefusedError")
      [] r.raised = "RateLimitError" -> Raised("ConnectionAbortedError")
      [] r.raised = "APIConnectionError" -> Raised("ConnectionError")
      [] r.raised = "APIError" -> Raised("RuntimeError")
      [] OTHER -> Raised("RuntimeError")

\* as parse_max_menu_depth, an integer of the reply taken as it is
parse_max_menu_depth_AsReturned(d) ==
    IF d.kind = "int" THEN d.int ELSE 2

\* max_menu_depth as parsed from the reply
parse_max_menu_depth(d) ==
    IF d.kind = "int"
    THEN (IF d.int # 2 THEN 2 ELSE d.int)
    ELSE 2

\* the body of the outer try of generate_main_menu_with_ai
main_menu_try(api) ==
    IF api.raises # "none" THEN Raised(api.raises)
    ELSE IF api.form = "empty" THEN Raised("ValueError")
    ELSE IF api.form = "notjson" THEN Raised("ValueError")
    ELSE IF ~(api.data.isdict /\ api.data.categories.kind = "list") THEN Raised("ValueError")
    ELSE LET menu_items == StrippedItems(api.data.categories.list)
         IN  IF menu_items = <<>> THEN Raised("ValueError")
             ELSE GenResult("none", menu_items,
                            parse_max_menu_depth(api.data.max_menu_depth), <<>>)

generate_main_menu_with_ai(topic, api) ==
    IF ~openai_client
    THEN GenResult("none",
                   << <<"Introduction to ">> \o topic, <<"Key Concepts in ">> \o topic,
                      <<"History of ">> \o topic >>, 2, <<>>)
    ELSE openai_error_handlers(main_menu_try(api))

\* the body of the outer try of generate_submenu_with_ai
submenu_try(api) ==
    IF api.raises # "none" THEN Raised(api.raises)
    ELSE IF api.form = "empty" THEN Raised("ValueError")
    ELSE IF api.form = "notjson" THEN Raised("ValueError")
    ELSE IF ~(api.data.isdict /\ api.data.subtopics.kind = "list") THEN Raised("ValueError")
    ELSE LET submenu_items == StrippedItems(api.data.subtopics.list)
         IN  IF submenu_items = <<>> THEN Raised("ValueError")
             ELSE GenResult("none", submenu_items, 0, <<>>)

generate_submenu_with_ai(topic, category_selection, api) ==
    IF ~openai_client
    THEN GenResult("none",
                   << <<"Subtopic 1 for ">> \o category_selection,
                      <<"Subtopic 2 for ">> \o category_selection >>, 0, <<>>)
    ELSE openai_error_handlers(submenu_try(api))

\* the body of the outer try of generate_content_and_further_topics
content_try(api) ==
    IF api.raises # "none" THEN Raised(api.raises)
    ELSE IF api.form = "empty" THEN Raised("ValueError")
    ELSE IF api.form = "notjson" THEN Raised("ValueError")
    ELSE IF ~(api.data.isdict /\ api.data.content_markdown.kind = "str") THEN Raised("ValueError")
    ELSE IF strip(api.data.content_markdown.str) = <<>> THEN Raised("ValueError")
    ELSE IF ~(api.data.further_topics.kind = "list") THEN Raised("ValueError")
    ELSE LET further_topics == StrippedItems(api.data.further_topics.list)
         IN  IF further_topics = <<>> THEN Raised("ValueError")
             ELSE GenResult("none", further_topics, 0, strip(api.data.content_markdown.str))

RECURSIVE join(_, _)
\* sep.join(parts)
join(sep, parts) ==
    IF parts = <<>> THEN <<>>
    ELSE IF Len(parts) = 1 THEN parts[1]
    ELSE parts[1] \o sep \o join(sep, Tail(parts))

generate_content_and_further_topics(topic, selection_path, api) ==
    IF ~openai_client
    THEN GenResult("none", << <<"Deeper Topic 1">>, <<"Deeper Topic 2">> >>, 0,
                   <<"## Fallback Content\n\nDetails about '">> \o join(<<" -> ">>, selection_path)
                       \o <<"' would appear here.">>)
    ELSE openai_error_handlers(content_try(api))

(* ----------------------------- the handlers ---------------------------- *)

NoRequest == [op |-> "none", session_id |-> "", topic |-> <<>>, selection |-> <<>>]

NoCall == [fn |-> "none", topic |-> <<>>, category_selection |-> <<>>, selection_path |-> <<>>]

Response(status, code, session_id, type, menu_items, content_markdown) ==
    [status |-> status, code |-> code, session_id |-> session_id, type |-> type,
     menu_items |-> menu_items, content_markdown |-> content_markdown]

\* raise HTTPException(status_code=status, detail={"error": {"code": code, ...}})
HTTPException(status, code) == Response(status, code, "", "", <<>>, None)

NoReturn == Raised("none")

NoResponse == Response(0, "", "", "", <<>>, None)

\* the except clauses that close the try of both handlers
ai_http_error(e) ==
    IF ~(\E cls \in {"ConnectionRefusedError", "ConnectionAbortedError", "ConnectionError",
                     "RuntimeError", "ValueError"} : IsInstance(e, cls))
    THEN HTTPException(500, "UNEXPECTED")
    ELSE IF IsInstance(e, "ConnectionRefusedError") THEN HTTPException(401, "AI_AUTH_ERROR")
    ELSE IF IsInstance(e, "ConnectionAbortedError") THEN HTTPException(429, "AI_RATE_LIMIT")
    ELSE IF IsInstance(e, "ConnectionError") THEN HTTPException(504, "AI_CONNECTION_ERROR")
    ELSE IF IsInstance(e, "ValueError") THEN HTTPException(502, "AI_BAD_RESPONSE")
    ELSE IF IsInstance(e, "RuntimeError") THEN HTTPException(502, "AI_API_ERROR")
    ELSE HTTPException(503, "AI_GENERATION_FAILED")

(* create_session *)

\* the try block of create_session: the generator's result, or what was raised
create_session_try(topic, api) ==
    LET r == generate_main_menu_with_ai(topic, api)
    IN  IF r.raised = "none" /\ r.menu_items = <<>> THEN Raised("ValueError") ELSE r

\* as NewSession, the menu left out of the stored state
NewSession_NoMenu(topic, main_menu_items, max_menu_depth) ==
    [topic |-> topic,
     history |-> << <<"topic", topic>> >>,
     current_menu |-> <<>>,
     max_menu_depth |-> max_menu_depth]

\* as NewSession, the history starting empty
NewSession_NoTopicEntry(topic, main_menu_items, max_menu_depth) ==
    [topic |-> topic,
     history |-> <<>>,
     current_menu |-> main_menu_items,
     max_menu_depth |-> max_menu_depth]

\* the dict stored under the new session id
NewSession(topic, main_menu_items, max_menu_depth) ==
    [topic |-> topic,
     history |-> << <<"topic", topic>> >>,
     current_menu |-> main_menu_items,
     max_menu_depth |-> max_menu_depth]

\* as StoreAfterCreate, the store replaced by one that holds the new session only
StoreAfterCreate_Replace(store, session_id, topic, r) ==
    IF openai_client /\ r.raised = "none"
    THEN (session_id :> NewSession(topic, r.menu_items, r.max_depth))
    ELSE store

\* as StoreAfterCreate, the session stored before the generator's result is looked at
StoreAfterCreate_Always(store, session_id, topic, r) ==
    (session_id :> NewSession(topic, r.menu_items, r.max_depth)) @@ store

\* the store after create_session has run with generator result r
StoreAfterCreate(store, session_id, topic, r) ==
    IF openai_client /\ r.raised = "none"
    THEN (session_id :> NewSession(topic, r.menu_items, r.max_depth)) @@ store
    ELSE store

create_session_response(session_id, r) ==
    IF ~openai_client THEN HTTPException(503, "AI_SERVICE_UNAVAILABLE")
    ELSE IF r.raised # "none"
    THEN (IF ai_http_error(r.raised).status = 500
          THEN HTTPException(500, "SESSION_CREATION_FAILED")
          ELSE ai_http_error(r.raised))
    ELSE Response(201, "", session_id, "", r.menu_items, None)

\* uuid4 gives an id no session has: once every id of SessionIds is in use only
\* the requests that store nothing are followed
FreshId(session_id, topic, api) ==
    session_id \in DOMAIN sessions =>
        ~(openai_client /\ create_session_try(topic, api).raised = "none")

\* one run of the handler of POST /sessions, the OpenAI call answering `api`
create_session_run(session_id, topic, api) ==
    LET r == create_session_try(topic, api)
    IN  /\ request' = [op |-> "create_session", session_id |-> "", topic |-> topic,
                       selection |-> <<>>]
        /\ generator_call' =
               IF openai_client
               THEN [fn |-> "generate_main_menu_with_ai", topic |-> topic,
                     category_selection |-> <<>>, selection_path |-> <<>>]
               ELSE NoCall
        /\ generator_return' = (IF openai_client THEN r ELSE NoReturn)
        /\ sessions' = StoreAfterCreate(sessions, session_id, topic, r)
        /\ response' = create_session_response(session_id, r)

\* POST /sessions
create_session ==
    \E session_id \in SessionIds, topic \in Topics, api \in MainMenuReplies :
        /\ FreshId(session_id, topic, api)
        /\ create_session_run(session_id, topic, api)
        /\ UNCHANGED <<openai_client, watched>>

(* select_menu_item *)

\* as InCurrentMenu, the membership test left out
InCurrentMenu_Always(selection, current_menu) == TRUE

\* selection in current_menu_in_session
InCurrentMenu(selection, current_menu) == Contains(current_menu, selection)

\* as IsSubmenuLevel, off by one
IsSubmenuLevel_OffByOne(current_level, max_menu_depth) == current_level <= max_menu_depth

\* as IsSubmenuLevel, content at the one level max_menu_depth only
IsSubmenuLevel_NotEqual(current_level, max_menu_depth) == current_level # max_menu_depth

\* current_level < max_menu_depth: a submenu is generated, otherwise content
IsSubmenuLevel(current_level, max_menu_depth) == current_level < max_menu_depth

\* as SelectionPath, the topic entry of the history not filtered out
SelectionPath_WithTopic(current_history, selection) ==
    [i \in 1..Len(current_history) |-> current_history[i][2]] \o <<selection>>

\* [item[1] for item in current_history if item[0] == 'menu_selection'] + [selection]
SelectionPath(current_history, selection) ==
    LET sel == SelectSeq(current_history, LAMBDA item : item[1] = "menu_selection")
    IN  [i \in 1..Len(sel) |-> sel[i][2]] \o <<selection>>

\* as NewHistory, the earlier selections replaced instead of kept
NewHistory_Replace(current_history, selection) ==
    <<current_history[1], <<"menu_selection", selection>>>>

\* current_history + [("menu_selection", selection)]
NewHistory(current_history, selection) ==
    current_history \o << <<"menu_selection", selection>> >>

\* the try block of select_menu_item: the generator's result, or what was raised
select_try(session_data, selection, api) ==
    IF IsSubmenuLevel(Len(session_data.history), session_data.max_menu_depth)
    THEN IF ~openai_client THEN Raised("ConnectionAbortedError")
         ELSE LET r == generate_submenu_with_ai(session_data.topic, selection, api)
              IN  IF r.raised = "none" /\ r.menu_items = <<>> THEN Raised("ValueError") ELSE r
    ELSE IF ~openai_client THEN Raised("ConnectionAbortedError")
         ELSE LET r == generate_content_and_further_topics(
                           session_data.topic,
                           SelectionPath(session_data.history, selection), api)
              IN  IF r.raised = "none" /\ (r.content_markdown = <<>> \/ r.menu_items = <<>>)
                  THEN Raised("ValueError")
                  ELSE r

\* the generator helper the try block calls
select_generator_call(session_data, selection) ==
    IF ~openai_client THEN NoCall
    ELSE IF IsSubmenuLevel(Len(session_data.history), session_data.max_menu_depth)
    THEN [fn |-> "generate_submenu_with_ai", topic |-> session_data.topic,
          category_selection |-> selection, selection_path |-> <<>>]
    ELSE [fn |-> "generate_content_and_further_topics", topic |-> session_data.topic,
          category_selection |-> <<>>,
          selection_path |-> SelectionPath(session_data.history, selection)]

\* as SessionAfterSelect, the history written before the generator is called
SessionAfterSelect_EarlyWrite(session_data, selection, r) ==
    IF r.raised = "none"
    THEN [session_data EXCEPT !.history = NewHistory(session_data.history, selection),
                              !.current_menu = r.menu_items]
    ELSE [session_data EXCEPT !.history = NewHistory(session_data.history, selection)]

\* as SessionAfterSelect, the selection also taken as the session's new topic
SessionAfterSelect_Retopic(session_data, selection, r) ==
    IF r.raised = "none"
    THEN [session_data EXCEPT !.history = NewHistory(session_data.history, selection),
                              !.current_menu = r.menu_items,
                              !.topic = selection]
    ELSE session_data

\* as SessionAfterSelect, the menu taken from the result also when the call failed
SessionAfterSelect_MenuOnFailure(session_data, selection, r) ==
    IF r.raised = "none"
    THEN [session_data EXCEPT !.history = NewHistory(session_data.history, selection),
                              !.current_menu = r.menu_items]
    ELSE [session_data EXCEPT !.current_menu = r.menu_items]

\* session_data after the try block has run with generator result r
SessionAfterSelect(session_data, selection, r) ==
    IF r.raised = "none"
    THEN [session_data EXCEPT !.history = NewHistory(session_data.history, selection),
                              !.current_menu = r.menu_items]
    ELSE session_data

\* as select_response, the markdown left out of the content response
select_response_NoMarkdown(session_data, r) ==
    IF r.raised # "none"
    THEN (IF ai_http_error(r.raised).status = 500
          THEN HTTPException(500, "MENU_PROCESSING_FAILED")
          ELSE ai_http_error(r.raised))
    ELSE IF IsSubmenuLevel(Len(session_data.history), session_data.max_menu_depth)
    THEN Response(200, "", "", "submenu", r.menu_items, None)
    ELSE Response(200, "", "", "content", r.menu_items, None)

\* the response of select_menu_item once the try block has run with generator result r
select_response(session_data, r) ==
    IF r.raised # "none"
    THEN (IF ai_http_error(r.raised).status = 500
          THEN HTTPException(500, "MENU_PROCESSING_FAILED")
          ELSE ai_http_error(r.raised))
    ELSE IF IsSubmenuLevel(Len(session_data.history), session_data.max_menu_depth)
    THEN Response(200, "", "", "submenu", r.menu_items, None)
    ELSE Response(200, "", "", "content", r.menu_items, Some(r.content_markdown))

\* the replies the OpenAI call of this request can get (one, unused, if none is made)
RepliesFor(session_id, selection) ==
    IF session_id \notin DOMAIN sessions THEN {NoReply}
    ELSE IF ~InCurrentMenu(selection, SessionGet(sessions[session_id], "current_menu", <<>>))
    THEN {NoReply}
    ELSE IF IsSubmenuLevel(Len(sessions[session_id].history), sessions[session_id].max_menu_depth)
    THEN SubmenuReplies
    ELSE ContentReplies

\* as SessionNotFound, the unknown id answered like a selection that is not offered
SessionNotFound_AsInvalid == HTTPException(400, "INVALID_SELECTION")

\* the response to a session id that is not in the store
SessionNotFound == HTTPException(404, "SESSION_NOT_FOUND")

\* as select_menu_item_run, the generator called before the selection is looked up
\* in the current menu
select_menu_item_run_CallFirst(session_id, selection, api) ==
    /\ request' = [op |-> "select_menu_item", session_id |-> session_id,
                   topic |-> <<>>, selection |-> selection]
    /\ IF session_id \notin DOMAIN sessions
       THEN /\ response' = SessionNotFound
            /\ generator_call' = NoCall
            /\ generator_return' = NoReturn
            /\ sessions' = sessions
       ELSE IF ~InCurrentMenu(selection, SessionGet(sessions[session_id], "current_menu", <<>>))
       THEN /\ response' = HTTPException(400, "INVALID_SELECTION")
            /\ generator_call' = select_generator_call(sessions[session_id], selection)
            /\ generator_return' = NoReturn
            /\ sessions' = sessions
       ELSE IF sessions[session_id].max_menu_depth \notin Int
       THEN /\ response' = HTTPException(500, "INTERNAL_SERVER_ERROR")
            /\ generator_call' = NoCall
            /\ generator_return' = NoReturn
            /\ sessions' = sessions
       ELSE LET session_data == sessions[session_id]
                r == select_try(session_data, selection, api)
            IN  /\ response' = select_response(session_data, r)
                /\ generator_call' = select_generator_call(session_data, selection)
                /\ generator_return' = (IF openai_client THEN r ELSE NoReturn)
                /\ sessions' = [sessions EXCEPT
                                   ![session_id] = SessionAfterSelect(session_data, selection, r)]

\* one run of the handler of POST /menus, the OpenAI call (if made) answering `api`
select_menu_item_run(session_id, selection, api) ==
    /\ request' = [op |-> "select_menu_item", session_id |-> session_id,
                   topic |-> <<>>, selection |-> selection]
    /\ IF session_id \notin DOMAIN sessions
       THEN /\ response' = SessionNotFound
            /\ generator_call' = NoCall
            /\ generator_return' = NoReturn
            /\ sessions' = sessions
       ELSE IF ~InCurrentMenu(selection, SessionGet(sessions[session_id], "current_menu", <<>>))
       THEN /\ response' = HTTPException(400, "INVALID_SELECTION")
            /\ generator_call' = NoCall
            /\ generator_return' = NoReturn
            /\ sessions' = sessions
       ELSE IF sessions[session_id].max_menu_depth \notin Int
       THEN /\ response' = HTTPException(500, "INTERNAL_SERVER_ERROR")
            /\ generator_call' = NoCall
            /\ generator_return' = NoReturn
            /\ sessions' = sessions
       ELSE LET session_data == sessions[session_id]
                r == select_try(session_data, selection, api)
            IN  /\ response' = select_response(session_data, r)
                /\ generator_call' = select_generator_call(session_data, selection)
                /\ generator_return' = (IF openai_client THEN r ELSE NoReturn)
                /\ sessions' = [sessions EXCEPT
                                   ![session_id] = SessionAfterSelect(session_data, selection, r)]

\* the histories are kept finite: no selection is followed from one of length `cap`
HistoryBelow(session_id, cap) ==
    session_id \in DOMAIN sessions => Len(sessions[session_id].history) < cap

\* POST /menus
select_menu_item ==
    \E session_id \in RequestIds, selection \in Selections :
        /\ HistoryBelow(session_id, MaxHistory)
        /\ \E api \in RepliesFor(session_id, selection) :
               select_menu_item_run(session_id, selection, api)
        /\ UNCHANGED <<openai_client, watched>>

(* --------------------------- the specification ------------------------- *)

Init ==
    /\ openai_client \in BOOLEAN
    /\ sessions = <<>>
    /\ request = NoRequest
    /\ generator_call = NoCall
    /\ generator_return = NoReturn
    /\ response = NoResponse
    /\ openai_reply = NoReply
    /\ arrived = {}
    /\ running = {}
    /\ menuByDepth = <<>>
    /\ lastContent = <<>>
    /\ sessions_before = <<>>

Next == create_session \/ select_menu_item

Spec == Init /\ [][Next]_vars

(* ------------------ the runs, with the OpenAI reply watched ------------ *)

\* POST /sessions; chat.completions.create is called iff the client exists
create_session_watched ==
    \E session_id \in SessionIds, topic \in Topics, api \in MainMenuReplies :
        /\ FreshId(session_id, topic, api)
        /\ create_session_run(session_id, topic, api)
        /\ openai_reply' = (IF openai_client THEN api ELSE NoReply)
        /\ UNCHANGED <<openai_client, loop, navigation>>

\* POST /menus; chat.completions.create is called iff a generator is
select_menu_item_watched ==
    \E session_id \in RequestIds, selection \in Selections :
        /\ HistoryBelow(session_id, MaxReplyHistory)
        /\ \E api \in RepliesFor(session_id, selection) :
               /\ select_menu_item_run(session_id, selection, api)
               /\ openai_reply' = (IF generator_call' # NoCall THEN api ELSE NoReply)
        /\ UNCHANGED <<openai_client, loop, navigation>>

NextReplies == create_session_watched \/ select_menu_item_watched

SpecReplies == Init /\ [][NextReplies]_vars

(* ----------------------- the runs on the event loop -------------------- *)

\* Both handlers are coroutines ("async def") that uvicorn runs on its one
\* event loop.  Neither awaits: openai_client is the synchronous openai.OpenAI,
\* so a run keeps the loop from its first line to its return, the wait for
\* chat.completions.create included, and no other run starts before it ends.

\* one topic is enough where the order of the runs and requests is what matters
LoopTopics == {<<"a">>}

CreateRequests ==
    {[op |-> "create_session", session_id |-> "", topic |-> t, selection |-> <<>>] :
        t \in LoopTopics}

SelectRequests ==
    {[op |-> "select_menu_item", session_id |-> id, topic |-> <<>>, selection |-> sel] :
        id \in RequestIds, sel \in Selections}

NoSession == [topic |-> <<>>, history |-> <<>>, current_menu |-> <<>>, max_menu_depth |-> 0]

\* a run that waits in chat.completions.create: its request, the id it works on,
\* and what it read from the session before the call
Run(req, session_id, session_data) ==
    [request |-> req, session_id |-> session_id, session_data |-> session_data]

\* as LoopFree, the OpenAI call awaited: the loop is free while a run waits
LoopFree_Awaited == TRUE

\* the event loop can start a handler: no run is holding it
LoopFree == running = {}

\* the server accepts a request; its handler is started by the event loop
accept_request ==
    \E req \in CreateRequests \cup SelectRequests :
        /\ Cardinality(arrived) < MaxArrived
        /\ req \notin arrived
        /\ arrived' = arrived \cup {req}
        /\ UNCHANGED <<openai_client, sessions, last_run, openai_reply, running, navigation>>

\* POST /sessions up to the OpenAI call (without a client: up to the 503)
create_session_start(req) ==
    \E session_id \in SessionIds :
        /\ req.op = "create_session"
        /\ LoopFree
        /\ arrived' = arrived \ {req}
        /\ IF ~openai_client
           THEN /\ create_session_run(session_id, req.topic, NoReply)
                /\ UNCHANGED running
           ELSE /\ running' = running \cup {Run(req, session_id, NoSession)}
                /\ UNCHANGED <<sessions, last_run>>
        /\ UNCHANGED <<openai_client, openai_reply, navigation>>

create_session_begin == \E req \in arrived : create_session_start(req)

\* POST /sessions from the return of the OpenAI call on
create_session_end ==
    \E run \in running, api \in MainMenuReplies :
        /\ run.request.op = "create_session"
        /\ FreshId(run.session_id, run.request.topic, api)
        /\ create_session_run(run.session_id, run.request.topic, api)
        /\ running' = running \ {run}
        /\ UNCHANGED <<openai_client, openai_reply, arrived, navigation>>

\* POST /menus up to the OpenAI call (for a request that is refused: up to the end)
select_menu_item_start(req) ==
    /\ req.op = "select_menu_item"
    /\ LoopFree
    /\ HistoryBelow(req.session_id, MaxLoopHistory)
    /\ arrived' = arrived \ {req}
    /\ IF RepliesFor(req.session_id, req.selection) = {NoReply}
       THEN /\ select_menu_item_run(req.session_id, req.selection, NoReply)
            /\ UNCHANGED running
       ELSE /\ running' = running \cup {Run(req, req.session_id, sessions[req.session_id])}
            /\ UNCHANGED <<sessions, last_run>>
    /\ UNCHANGED <<openai_client, openai_reply, navigation>>

select_menu_item_begin == \E req \in arrived : select_menu_item_start(req)

\* the replies the OpenAI call of a waiting run can get
RepliesOf(run) ==
    IF IsSubmenuLevel(Len(run.session_data.history), run.session_data.max_menu_depth)
    THEN SubmenuReplies
    ELSE ContentReplies

\* POST /menus from the return of the OpenAI call on: the history read before
\* the call, with the selection appended, is written to the stored session
select_menu_item_end ==
    \E run \in running :
        /\ run.request.op = "select_menu_item"
        /\ \E api \in RepliesOf(run) :
               LET session_data == run.session_data
                   selection == run.request.selection
                   r == select_try(session_data, selection, api)
               IN  /\ request' = run.request
                   /\ response' = select_response(session_data, r)
                   /\ generator_call' = select_generator_call(session_data, selection)
                   /\ generator_return' = r
                   /\ sessions' =
                          IF r.raised = "none"
                          THEN [sessions EXCEPT ![run.session_id] =
                                   [@ EXCEPT !.history = NewHistory(session_data.history, selection),
                                             !.current_menu = r.menu_items]]
                          ELSE sessions
        /\ running' = running \ {run}
        /\ UNCHANGED <<openai_client, openai_reply, arrived, navigation>>

NextLoop ==
    \/ accept_request
    \/ create_session_begin
    \/ create_session_end
    \/ select_menu_item_begin
    \/ select_menu_item_end

SpecLoop == Init /\ [][NextLoop]_vars

(* ------------------------- back navigation ----------------------------- *)

\* main.py has no route /go_back or /main_menu and its sessions hold no menu
\* cache and no content (the keys are topic, history, current_menu,
\* max_menu_depth).  GoBack, ReturnToMainMenu and the two session fields they
\* work on, menuByDepth and lastContent, are taken from the specification of
\* the system (its transitions 3 and 4, cache strategy); CreateSession and
\* SelectMenuItem are the handlers of main.py, their record of the menu shown
\* and of the content added as that specification describes it.

\* the number of selection entries of a history
currentDepth(history) ==
    Cardinality({i \in 1..Len(history) : history[i][1] = "menu_selection"})

\* menuByDepth[depth] = items
RecordMenu(cache, depth, items) ==
    [d \in DOMAIN cache \cup {depth} |-> IF d = depth THEN items ELSE cache[d]]

NoMenus == [d \in {} |-> <<>>]

\* the replies followed here: a failure, an empty reply, and objects whose
\* lists, if any, give the menu ["a", "b"], ["b"] or ["a", "a"]
NavLists ==
    { <<JsonStr(<<" ", "a">>), JsonStr(<<"b">>)>>,
      <<JsonStr(<<"b">>)>>,
      <<JsonStr(<<"a">>), JsonStr(<<" ", "a">>)>> }

NavList(v) == v.kind = "list" => v.list \in NavLists

NavReply(api) ==
    \/ api.raises = "RateLimitError"
    \/ /\ api.raises = "none"
       /\ api.form \in {"empty", "json"}
       /\ NavList(api.data.categories)
       /\ NavList(api.data.subtopics)
       /\ NavList(api.data.further_topics)
       /\ api.data.max_menu_depth.kind \in {"missing", "other"}
       /\ api.data.content_markdown.kind = "str" =>
              api.data.content_markdown.str = <<" ", "m">>

NavMainMenuReplies == {api \in MainMenuReplies : NavReply(api)}

\* CreateSession: menuByDepth = {0: items}, lastContent = None
create_session_recorded ==
    \E session_id \in SessionIds, topic \in LoopTopics, api \in NavMainMenuReplies :
        /\ FreshId(session_id, topic, api)
        /\ create_session_run(session_id, topic, api)
        /\ sessions_before' = sessions
        /\ IF response'.status = 201
           THEN /\ menuByDepth' =
                       [id \in DOMAIN sessions' |->
                           IF id = session_id
                           THEN RecordMenu(NoMenus, 0, sessions'[id].current_menu)
                           ELSE menuByDepth[id]]
                /\ lastContent' =
                       [id \in DOMAIN sessions' |->
                           IF id = session_id THEN None ELSE lastContent[id]]
           ELSE UNCHANGED <<menuByDepth, lastContent>>
        /\ UNCHANGED <<openai_client, openai_reply, loop>>

\* SelectMenuItem: menuByDepth[nextDepth] = the items shown; lastContent = the
\* markdown in the content tier, None for a submenu
select_menu_item_recorded ==
    \E session_id \in RequestIds, selection \in Selections :
        /\ HistoryBelow(session_id, MaxNavHistory)
        /\ \E api \in {a \in RepliesFor(session_id, selection) : NavReply(a)} :
               select_menu_item_run(session_id, selection, api)
        /\ sessions_before' = sessions
        /\ IF response'.status = 200
           THEN /\ menuByDepth' =
                       [menuByDepth EXCEPT ![session_id] =
                           RecordMenu(@, currentDepth(sessions'[session_id].history),
                                      sessions'[session_id].current_menu)]
                /\ lastContent' =
                       [lastContent EXCEPT ![session_id] = response'.content_markdown]
           ELSE UNCHANGED <<menuByDepth, lastContent>>
        /\ UNCHANGED <<openai_client, openai_reply, loop>>

NavRequest(op, session_id) ==
    [op |-> op, session_id |-> session_id, topic |-> <<>>, selection |-> <<>>]

\* as AtRootLevel, the missing earlier menu reported as a broken cache
AtRootLevel_AsInconsistent == HTTPException(500, "StateInconsistent")

AtRootLevel == HTTPException(400, "AtRootLevel")

StateInconsistent == HTTPException(500, "StateInconsistent")

\* the history without its trailing selection entry, if it has one
DropTrailingSelection(history) ==
    IF history # <<>> /\ history[Len(history)][1] = "menu_selection"
    THEN SubSeq(history, 1, Len(history) - 1)
    ELSE history

\* as PrevDepth, one level too far back
PrevDepth_TwoBack(depth) == IF depth > 1 THEN depth - 2 ELSE 0

\* the depth GoBack returns to
PrevDepth(depth) == depth - 1

\* GoBack (cache strategy): no generator is called
GoBack ==
    \E session_id \in RequestIds :
        /\ request' = NavRequest("go_back", session_id)
        /\ generator_call' = NoCall
        /\ generator_return' = NoReturn
        /\ sessions_before' = sessions
        /\ IF session_id \notin DOMAIN sessions
           THEN /\ response' = SessionNotFound
                /\ UNCHANGED <<sessions, menuByDepth, lastContent>>
           ELSE IF currentDepth(sessions[session_id].history) = 0
           THEN /\ response' = AtRootLevel
                /\ UNCHANGED <<sessions, menuByDepth, lastContent>>
           ELSE LET prevDepth == PrevDepth(currentDepth(sessions[session_id].history))
                IN  IF prevDepth \notin DOMAIN menuByDepth[session_id]
                    THEN /\ response' = StateInconsistent
                         /\ UNCHANGED <<sessions, menuByDepth, lastContent>>
                    ELSE LET menu == menuByDepth[session_id][prevDepth]
                         IN  /\ sessions' =
                                    [sessions EXCEPT ![session_id] =
                                        [@ EXCEPT !.history = DropTrailingSelection(@),
                                                  !.current_menu = menu]]
                             /\ lastContent' = [lastContent EXCEPT ![session_id] = None]
                             /\ response' = Response(200, "", "", "submenu", menu, None)
                             /\ UNCHANGED menuByDepth
        /\ UNCHANGED <<openai_client, openai_reply, loop>>

\* as RootHistory, the history kept as it is
RootHistory_Kept(session_data) == session_data.history

\* history = [Topic(topic)]
RootHistory(session_data) == << <<"topic", session_data.topic>> >>

\* ReturnToMainMenu: no generator is called
ReturnToMainMenu ==
    \E session_id \in RequestIds :
        /\ request' = NavRequest("main_menu", session_id)
        /\ generator_call' = NoCall
        /\ generator_return' = NoReturn
        /\ sessions_before' = sessions
        /\ IF session_id \notin DOMAIN sessions
           THEN /\ response' = SessionNotFound
                /\ UNCHANGED <<sessions, menuByDepth, lastContent>>
           ELSE LET rootMenu == IF 0 \in DOMAIN menuByDepth[session_id]
                                THEN menuByDepth[session_id][0]
                                ELSE sessions[session_id].current_menu
                IN  /\ sessions' =
                           [sessions EXCEPT ![session_id] =
                               [@ EXCEPT !.history = RootHistory(sessions[session_id]),
                                         !.current_menu = rootMenu]]
                    /\ lastContent' = [lastContent EXCEPT ![session_id] = None]
                    /\ response' = Response(200, "", "", "submenu", rootMenu, None)
                    /\ UNCHANGED menuByDepth
        /\ UNCHANGED <<openai_client, openai_reply, loop>>

NextNav ==
    \/ create_session_recorded
    \/ select_menu_item_recorded
    \/ GoBack
    \/ ReturnToMainMenu

SpecNav == Init /\ [][NextNav]_vars

(* ------------------------ several sessions in the store ---------------- *)

\* the ids uuid4 can give when two sessions are created, and the ids a
\* request can name (one is never given)
SharedSessionIds == {"s1", "s2"}
SharedRequestIds == SharedSessionIds \cup {"s0"}

\* POST /sessions, a second session possibly stored next to the first
create_session_shared ==
    \E session_id \in SharedSessionIds, topic \in LoopTopics, api \in NavMainMenuReplies :
        /\ FreshId(session_id, topic, api)
        /\ create_session_run(session_id, topic, api)
        /\ UNCHANGED <<openai_client, watched>>

\* POST /menus, for one of the stored sessions or for an unknown id
select_menu_item_shared ==
    \E session_id \in SharedRequestIds, selection \in Selections :
        /\ HistoryBelow(session_id, MaxSharedHistory)
        /\ \E api \in {a \in RepliesFor(session_id, selection) : NavReply(a)} :
               select_menu_item_run(session_id, selection, api)
        /\ UNCHANGED <<openai_client, watched>>

NextShared == create_session_shared \/ select_menu_item_shared

SpecShared == Init /\ [][NextShared]_vars

(* ------------------------------ properties ----------------------------- *)

\* number of ("menu_selection", ...) entries of a history: the session's depth
NumSelections(history) ==
    Cardinality({i \in 1..Len(history) : history[i][1] = "menu_selection"})

SessionKeys == {"topic", "history", "current_menu", "max_menu_depth"}

\* a string with a character that is not white space
NonBlank(s) == \E j \in 1..Len(s) : ~IsSpace(s[j])

Distinct(list) == \A i, j \in 1..Len(list) : i # j => list[i] # list[j]

\* C1: a selection that is not in the session's current menu is answered
\* 400 INVALID_SELECTION, no generator is called and the store stays as it was.
C1_InvalidSelectionRejected ==
    [][\A id \in DOMAIN sessions :
          (/\ request'.op = "select_menu_item"
           /\ request'.session_id = id
           /\ ~Contains(sessions[id].current_menu, request'.selection))
          => (/\ response'.status = 400
              /\ response'.code = "INVALID_SELECTION"
              /\ generator_call' = NoCall
              /\ sessions' = sessions)]_vars

\* a selection accepted from an earlier menu, no longer in the current one, was refused
C1_Witness ==
    /\ request.op = "select_menu_item"
    /\ response.code = "INVALID_SELECTION"
    /\ request.session_id \in DOMAIN sessions
    /\ \E i \in 1..Len(sessions[request.session_id].history) :
          sessions[request.session_id].history[i] = <<"menu_selection", request.selection>>
    /\ ~Contains(sessions[request.session_id].current_menu, request.selection)

\* C2: when the generator called by select_menu_item raises, whatever it raises
\* and in either branch, the request fails, the store stays as it was and the
\* same selection is still in the session's current menu.
C2_GeneratorFailureKeepsSession ==
    [][(/\ request'.op = "select_menu_item"
        /\ generator_call'.fn # "none"
        /\ generator_return'.raised # "none")
       => (/\ response'.status # 200
           /\ sessions' = sessions
           /\ request'.session_id \in DOMAIN sessions
           /\ Contains(sessions'[request'.session_id].current_menu, request'.selection))]_vars

\* the content generator failed on a session that exists
C2_Witness ==
    /\ request.op = "select_menu_item"
    /\ generator_call.fn = "generate_content_and_further_topics"
    /\ generator_return.raised = "RuntimeError"
    /\ response.status = 502
    /\ request.session_id \in DOMAIN sessions
    /\ Contains(sessions[request.session_id].current_menu, request.selection)

\* C3: for a valid selection, with nextDepth the number of selections made plus
\* one: the submenu generator is called, and a success answers type submenu
\* without markdown, when nextDepth < max_menu_depth; the content generator is
\* called, and a success answers type content with markdown, otherwise.
C3_DepthDecision ==
    [][\A id \in DOMAIN sessions :
          (/\ request'.op = "select_menu_item"
           /\ request'.session_id = id
           /\ Contains(sessions[id].current_menu, request'.selection))
          => LET nextDepth == NumSelections(sessions[id].history) + 1
             IN  /\ generator_return'.raised = "none" <=> response'.status = 200
                 /\ IF nextDepth < sessions[id].max_menu_depth
                    THEN /\ generator_call'.fn = "generate_submenu_with_ai"
                         /\ response'.status = 200
                                => (response'.type = "submenu" /\ response'.content_markdown = None)
                    ELSE /\ generator_call'.fn = "generate_content_and_further_topics"
                         /\ response'.status = 200
                                => (response'.type = "content" /\ response'.content_markdown # None)]_vars

\* with max_menu_depth 2 the second selection was answered with content
C3_Witness ==
    /\ request.op = "select_menu_item"
    /\ response.status = 200
    /\ response.type = "content"
    /\ request.session_id \in DOMAIN sessions
    /\ sessions[request.session_id].max_menu_depth = 2
    /\ NumSelections(sessions[request.session_id].history) = 2

\* C4: a successful select_menu_item appends the one entry
\* ("menu_selection", selection) to the session's history, and the session's
\* current menu and the response's menu are the list the generator returned.
C4_SuccessAppendsSelection ==
    [][(request'.op = "select_menu_item" /\ response'.status = 200)
       => LET id == request'.session_id
          IN  /\ id \in DOMAIN sessions
              /\ DOMAIN sessions' = DOMAIN sessions
              /\ sessions'[id].history =
                     Append(sessions[id].history, <<"menu_selection", request'.selection>>)
              /\ NumSelections(sessions'[id].history) = NumSelections(sessions[id].history) + 1
              /\ generator_return'.raised = "none"
              /\ sessions'[id].current_menu = generator_return'.menu_items
              /\ response'.menu_items = generator_return'.menu_items]_vars

\* a third selection succeeded: two earlier entries were kept, one was added
C4_Witness ==
    /\ request.op = "select_menu_item"
    /\ response.status = 200
    /\ request.session_id \in DOMAIN sessions
    /\ Len(sessions[request.session_id].history) = 4
    /\ sessions[request.session_id].current_menu = response.menu_items

\* C5 as stated: the session a successful create_session stores holds, besides the
\* history [("topic", topic)] and the returned items as current menu, a per-depth
\* menu cache {0: items} and a last content of None.
C5_RootStateWithMenuCache ==
    (request.op = "create_session" /\ response.status = 201)
    => LET session_data == sessions[response.session_id]
           menu_by_depth == SessionGet(session_data, "menu_by_depth", <<>>)
       IN  /\ session_data.history = << <<"topic", request.topic>> >>
           /\ NumSelections(session_data.history) = 0
           /\ session_data.current_menu = response.menu_items
           /\ SessionGet(session_data, "last_content", None) = None
           /\ 0 \in DOMAIN menu_by_depth
           /\ menu_by_depth[0] = response.menu_items

\* C5, amended: a successful create_session adds one session under a new id, its
\* state being exactly topic, history [("topic", topic)], current_menu (the items
\* the main-menu generator returned) and max_menu_depth; the response carries
\* that id and those items, and no content.
C5_CreateStoresRoot ==
    [][(request'.op = "create_session" /\ response'.status = 201)
       => LET id == response'.session_id
          IN  /\ id \notin DOMAIN sessions
              /\ DOMAIN sessions' = DOMAIN sessions \cup {id}
              /\ \A other \in DOMAIN sessions : sessions'[other] = sessions[other]
              /\ DOMAIN sessions'[id] = SessionKeys
              /\ sessions'[id].topic = request'.topic
              /\ sessions'[id].history = << <<"topic", request'.topic>> >>
              /\ NumSelections(sessions'[id].history) = 0
              /\ generator_return'.raised = "none"
              /\ sessions'[id].current_menu = generator_return'.menu_items
              /\ sessions'[id].max_menu_depth = generator_return'.max_depth
              /\ response'.menu_items = generator_return'.menu_items
              /\ response'.content_markdown = None]_vars

\* a session was just created from a reply whose list had items to drop
C5_Witness ==
    /\ request.op = "create_session"
    /\ response.status = 201
    /\ response.session_id \in DOMAIN sessions
    /\ sessions[response.session_id].current_menu = <<<<"b">>, <<"a">>>>
    /\ sessions[response.session_id].topic = <<"b">>

\* C6: a create_session that fails, the client missing or the generator raising,
\* leaves the store as it was: the same ids, the same session states.
C6_FailedCreateKeepsStore ==
    [][(request'.op = "create_session" /\ response'.status # 201)
       => (sessions' = sessions /\ response'.status >= 400)]_vars

\* the generator failed on a create_session while a session was stored
C6_Witness ==
    /\ request.op = "create_session"
    /\ response.status = 502
    /\ generator_return.raised = "RuntimeError"
    /\ DOMAIN sessions # {}

\* C7: from a session whose next selection is in the content tier, every
\* successful selection is answered with type content, adds one to the depth,
\* and leaves the session in the content tier with a non-empty menu to select from.
C7_ContentTierPersists ==
    [][\A id \in DOMAIN sessions :
          (NumSelections(sessions[id].history) + 1 >= sessions[id].max_menu_depth)
          => (/\ sessions[id].current_menu # <<>>
              /\ (/\ request'.op = "select_menu_item"
                  /\ request'.session_id = id
                  /\ response'.status = 200)
                 => (/\ response'.type = "content"
                     /\ NumSelections(sessions'[id].history)
                            = NumSelections(sessions[id].history) + 1
                     /\ NumSelections(sessions'[id].history) + 1 >= sessions'[id].max_menu_depth
                     /\ sessions'[id].current_menu # <<>>))]_vars

\* content was answered a second time in a row, from a further-topics menu
C7_Witness ==
    /\ request.op = "select_menu_item"
    /\ response.status = 200
    /\ response.type = "content"
    /\ request.session_id \in DOMAIN sessions
    /\ NumSelections(sessions[request.session_id].history) = 3
    /\ sessions[request.session_id].max_menu_depth = 2

\* C8 as stated: every session's current menu is a non-empty sequence of pairwise
\* distinct, non-blank strings.
C8_MenuDistinctNonBlank ==
    \A id \in DOMAIN sessions :
        /\ sessions[id].current_menu # <<>>
        /\ \A i \in 1..Len(sessions[id].current_menu) : NonBlank(sessions[id].current_menu[i])
        /\ Distinct(sessions[id].current_menu)

\* C8, amended: every session's current menu is a non-empty sequence of non-blank
\* strings (the same string may occur in it more than once).
C8_MenuNonEmptyNonBlank ==
    \A id \in DOMAIN sessions :
        /\ sessions[id].current_menu # <<>>
        /\ \A i \in 1..Len(sessions[id].current_menu) : NonBlank(sessions[id].current_menu[i])

\* a selection was answered with a menu that holds the same item twice
C8_Witness ==
    \E id \in DOMAIN sessions :
        /\ NumSelections(sessions[id].history) >= 1
        /\ Len(sessions[id].current_menu) = 2
        /\ sessions[id].current_menu[1] = sessions[id].current_menu[2]

\* C9: every session's history is the one entry ("topic", topic), with the
\* session's topic, followed by ("menu_selection", ...) entries only, so that the
\* depth, the number of selections, is len(history) - 1.
C9_HistoryShape ==
    \A id \in DOMAIN sessions :
        LET history == sessions[id].history
        IN  /\ Len(history) >= 1
            /\ history[1] = <<"topic", sessions[id].topic>>
            /\ \A i \in 2..Len(history) : history[i][1] = "menu_selection"
            /\ NumSelections(history) = Len(history) - 1

\* a session two selections deep
C9_Witness ==
    \E id \in DOMAIN sessions :
        /\ Len(sessions[id].history) = 3
        /\ sessions[id].history[3][1] = "menu_selection"

\* C10 as stated: every session holds a last content that is None exactly when
\* its depth is below max_menu_depth.
C10_LastContentStored ==
    \A id \in DOMAIN sessions :
        (SessionGet(sessions[id], "last_content", None) = None)
            <=> (NumSelections(sessions[id].history) < sessions[id].max_menu_depth)

\* C10, amended: the session stores no content; a successful response carries
\* markdown if and only if its type is content, and that is exactly when the
\* depth the session has reached with it is max_menu_depth or more (the response
\* to create_session and every submenu response carry none).
C10_MarkdownIffContent ==
    /\ \A id \in DOMAIN sessions : DOMAIN sessions[id] = SessionKeys
    /\ (request.op = "create_session" /\ response.status = 201)
           => (response.content_markdown = None /\ response.type # "content")
    /\ (request.op = "select_menu_item" /\ response.status = 200)
           => LET session_data == sessions[request.session_id]
                  depth == NumSelections(session_data.history)
              IN  /\ response.content_markdown # None <=> response.type = "content"
                  /\ response.content_markdown # None <=> depth >= session_data.max_menu_depth
                  /\ response.content_markdown # None => NonBlank(response.content_markdown[1])

\* a content response with its markdown, at depth max_menu_depth
C10_Witness ==
    /\ request.op = "select_menu_item"
    /\ response.status = 200
    /\ response.type = "content"
    /\ response.content_markdown = Some(<<"m">>)
    /\ NumSelections(sessions[request.session_id].history) = sessions[request.session_id].max_menu_depth

\* the max_menu_depth value of the reply of the last OpenAI call
ReplyDepth == openai_reply.data.max_menu_depth

\* the last run was a create_session that stored a session
SessionCreated ==
    /\ request.op = "create_session"
    /\ response.status = 201
    /\ response.session_id \in DOMAIN sessions

Clamp(n, lo, hi) == IF n < lo THEN lo ELSE IF n > hi THEN hi ELSE n

\* C11 as stated: the stored max_menu_depth is the generator's integer clamped
\* into 2..4 (an integer within 2..4 is stored as it is), and 2 when the
\* generator gives no integer.
C11_DepthClamped ==
    /\ \A id \in DOMAIN sessions : sessions[id].max_menu_depth \in 2..4
    /\ SessionCreated /\ openai_client =>
           sessions[response.session_id].max_menu_depth =
               (IF ReplyDepth.kind = "int" THEN Clamp(ReplyDepth.int, 2, 4) ELSE 2)

\* C11: every stored max_menu_depth is 2, whatever the reply of the main menu
\* call holds under "max_menu_depth": 2 itself, another integer within or
\* outside 2..4, something that is not an integer, or nothing.
C11_DepthAlwaysTwo ==
    /\ \A id \in DOMAIN sessions : sessions[id].max_menu_depth = 2
    /\ SessionCreated => sessions[response.session_id].max_menu_depth = 2

\* a session was created from a reply whose max_menu_depth is an integer other than 2
C11_Witness ==
    /\ SessionCreated
    /\ ReplyDepth.kind = "int"
    /\ ReplyDepth.int \in {1, 3, 5}
    /\ sessions[response.session_id].max_menu_depth = 2

\* C12: no step removes a session or changes its id, its topic or its
\* max_menu_depth: whatever create_session or select_menu_item run next, and
\* however it ends, every stored session is still stored under its id with the
\* topic and the max_menu_depth it had.
C12_IdentityImmutable ==
    [][\A id \in DOMAIN sessions :
          /\ id \in DOMAIN sessions'
          /\ sessions'[id].topic = sessions[id].topic
          /\ sessions'[id].max_menu_depth = sessions[id].max_menu_depth]_vars

\* a session two successful selections after its creation, with the topic it
\* was created with (the first history entry) and its max_menu_depth
C12_Witness ==
    /\ request.op = "select_menu_item"
    /\ response.status = 200
    /\ request.session_id \in DOMAIN sessions
    /\ Len(sessions[request.session_id].history) = 3
    /\ sessions[request.session_id].topic = sessions[request.session_id].history[1][2]
    /\ sessions[request.session_id].max_menu_depth = 2

\* C13: a select_menu_item that names a session id which is not in the store
\* is answered 404 SESSION_NOT_FOUND whatever its selection is, calls no
\* generator, stores no session under that id and leaves the store as it was.
C13_UnknownSessionRejected ==
    [][(request'.op = "select_menu_item" /\ request'.session_id \notin DOMAIN sessions) =>
          /\ response'.status = 404
          /\ response'.code = "SESSION_NOT_FOUND"
          /\ generator_call' = NoCall
          /\ request'.session_id \notin DOMAIN sessions'
          /\ sessions' = sessions]_vars

\* a selection that the stored session offers was sent under an id that is not
\* in the store, and was answered 404
C13_Witness ==
    /\ request.op = "select_menu_item"
    /\ request.session_id \notin DOMAIN sessions
    /\ \E id \in DOMAIN sessions : InCurrentMenu(request.selection, sessions[id].current_menu)
    /\ response.status = 404
    /\ generator_call = NoCall

\* the select_menu_item runs that wait in the OpenAI call
SelectRuns == {run \in running : run.request.op = "select_menu_item"}

\* C14: requests on one session never interleave.  No two runs on a session
\* wait at once; what a waiting run read from the session is what the store
\* holds until it ends, so its selection is in the current menu and its depth
\* decision is the one for the stored history; when it ends with 200 the stored
\* history grows by exactly its selection, otherwise the store stays as it
\* was; and a request that starts once its selection is not in the current
\* menu any more is answered 400 INVALID_SELECTION without running.
C14_SelectsSerialized ==
    [][/\ \A r1, r2 \in SelectRuns : r1.session_id = r2.session_id => r1 = r2
       /\ \A run \in SelectRuns :
             LET stored == sessions[run.session_id]
             IN  /\ run.session_data = stored
                 /\ InCurrentMenu(run.request.selection, stored.current_menu)
                 /\ (run \notin running' /\ response'.status = 200) =>
                        /\ sessions'[run.session_id].history =
                               stored.history \o << <<"menu_selection", run.request.selection>> >>
                        /\ response'.type =
                               (IF Len(stored.history) < stored.max_menu_depth
                                THEN "submenu" ELSE "content")
                 /\ (run \notin running' /\ response'.status # 200) => sessions' = sessions
       /\ \A req \in arrived :
             (/\ req \notin arrived'
              /\ req.op = "select_menu_item"
              /\ req.session_id \in DOMAIN sessions
              /\ ~InCurrentMenu(req.selection, sessions[req.session_id].current_menu)) =>
                 /\ response'.code = "INVALID_SELECTION"
                 /\ running' = running
                 /\ sessions' = sessions]_vars

\* a second request on a session waits in the OpenAI call, after a first one
\* has committed, while a third request on the same session has arrived
C14_Witness ==
    \E run \in SelectRuns, req \in arrived :
        /\ Len(run.session_data.history) = 2
        /\ req.op = "select_menu_item"
        /\ req.session_id = run.session_id
        /\ sessions[run.session_id] = run.session_data

\* a request that has arrived can be started by the event loop
CanStart(req) == ENABLED (create_session_start(req) \/ select_menu_item_start(req))

\* C15 as stated: while a run for one session waits in its OpenAI call, a
\* create_session request, or a request for another session id, that has
\* arrived can start.
C15_OtherSessionsProceed ==
    \A run \in SelectRuns : \A req \in arrived :
        (req.op = "create_session" \/ req.session_id # run.session_id) => CanStart(req)

\* a value of the reply that gives no item: not a list, or a list without any
\* string that is not blank
NoItems(v) ==
    \/ v.kind # "list"
    \/ ~\E i \in 1..Len(v.list) : v.list[i].isstr /\ NonBlank(v.list[i].str)

\* a value of the reply that gives no text: not a string, or a blank one
NoText(v) == v.kind # "str" \/ ~NonBlank(v.str)

\* the last run called a generator whose OpenAI call returned an empty or
\* malformed result: no content, no JSON, no JSON object, or an object without
\* the items (and, for content, the markdown) the generator asks for
MalformedReply ==
    /\ generator_call # NoCall
    /\ openai_reply.raises = "none"
    /\ \/ openai_reply.form # "json"
       \/ ~openai_reply.data.isdict
       \/ /\ generator_call.fn = "generate_main_menu_with_ai"
          /\ NoItems(openai_reply.data.categories)
       \/ /\ generator_call.fn = "generate_submenu_with_ai"
          /\ NoItems(openai_reply.data.subtopics)
       \/ /\ generator_call.fn = "generate_content_and_further_topics"
          /\ \/ NoText(openai_reply.data.content_markdown)
             \/ NoItems(openai_reply.data.further_topics)

\* C16 as stated: a run whose generator got an empty or malformed result
\* fails with AI_BAD_RESPONSE, in create_session and in select_menu_item.
C16_BadResponseCode ==
    MalformedReply => response.status >= 400 /\ response.code = "AI_BAD_RESPONSE"

\* the kind of generator failure of the last run ("none": no failure of a
\* kind that has a name; without a client a run that needs no generator, as one
\* for an unknown session id, meets no failure)
FailureKind ==
    IF request.op = "none" THEN "none"
    ELSE IF ~openai_client
    THEN (IF request.op = "create_session" \/ request.session_id \in DOMAIN sessions
          THEN "unavailable" ELSE "none")
    ELSE IF generator_call = NoCall THEN "none"
    ELSE IF openai_reply.raises = "AuthenticationError" THEN "auth error"
    ELSE IF openai_reply.raises = "RateLimitError" THEN "rate-limited"
    ELSE IF openai_reply.raises = "APIConnectionError" THEN "connection error"
    ELSE IF openai_reply.raises = "APIError" THEN "API error"
    ELSE IF MalformedReply THEN "bad response"
    ELSE "none"

\* C17 as stated: of any two runs that follow each other and both fail with a
\* generator failure, whichever handlers they are, the error codes are equal
\* exactly if the failure kinds are.
C17_DistinctCodes ==
    [][(FailureKind # "none" /\ FailureKind' # "none") =>
          ((FailureKind = FailureKind') <=> (response.code = response'.code))]_vars

\* C18: a GoBack that follows a successful select_menu_item on the same
\* session gives the session the current menu, the depth and the history it
\* had before that selection, answers with that menu, and calls no generator.
C18_SelectThenGoBack ==
    [][(/\ request.op = "select_menu_item"
        /\ response.status = 200
        /\ request'.op = "go_back"
        /\ request'.session_id = request.session_id) =>
          LET before == sessions_before[request.session_id]
              after == sessions'[request.session_id]
          IN  /\ after.current_menu = before.current_menu
              /\ after.history = before.history
              /\ currentDepth(after.history) = currentDepth(before.history)
              /\ response'.status = 200
              /\ response'.menu_items = before.current_menu
              /\ generator_call' = NoCall]_vars

\* a GoBack has undone a selection that had changed the menu
C18_Witness ==
    /\ request.op = "go_back"
    /\ response.status = 200
    /\ request.session_id \in DOMAIN sessions_before
    /\ Len(sessions_before[request.session_id].history) =
           Len(sessions[request.session_id].history) + 1
    /\ sessions_before[request.session_id].current_menu #
           sessions[request.session_id].current_menu

\* C19: a GoBack on a session at depth 0 is answered 400 AtRootLevel and
\* leaves the session, its menu cache and its content as they were.
C19_GoBackAtRoot ==
    [][(/\ request'.op = "go_back"
        /\ request'.session_id \in DOMAIN sessions
        /\ currentDepth(sessions[request'.session_id].history) = 0) =>
          /\ response'.status = 400
          /\ response'.code = "AtRootLevel"
          /\ generator_call' = NoCall
          /\ sessions' = sessions
          /\ menuByDepth' = menuByDepth
          /\ lastContent' = lastContent]_vars

\* a GoBack was refused at the root of a session that has been two levels deep
C19_Witness ==
    /\ request.op = "go_back"
    /\ request.session_id \in DOMAIN sessions
    /\ response.status = 400
    /\ currentDepth(sessions[request.session_id].history) = 0
    /\ 2 \in DOMAIN menuByDepth[request.session_id]

\* C20: ReturnToMainMenu on a session, in whatever state, leaves it at depth
\* 0 with history = [Topic(topic)], the root menu as current menu and no
\* content, and answers with the root menu; a second ReturnToMainMenu right
\* after it gives the same response and leaves the state as the first left it.
C20_ReturnToMainMenu ==
    [][(request'.op = "main_menu" /\ request'.session_id \in DOMAIN sessions) =>
          LET id == request'.session_id
              rootMenu == menuByDepth[id][0]
          IN  /\ sessions'[id].history = << <<"topic", sessions[id].topic>> >>
              /\ currentDepth(sessions'[id].history) = 0
              /\ sessions'[id].current_menu = rootMenu
              /\ lastContent'[id] = None
              /\ response'.status = 200
              /\ response'.type = "submenu"
              /\ response'.menu_items = rootMenu
              /\ response'.content_markdown = None
              /\ generator_call' = NoCall
              /\ (request.op = "main_menu" /\ request.session_id = id) =>
                     /\ response' = response
                     /\ sessions' = sessions
                     /\ menuByDepth' = menuByDepth
                     /\ lastContent' = lastContent]_vars

\* a ReturnToMainMenu has reset a session that showed content two levels deep
C20_Witness ==
    /\ request.op = "main_menu"
    /\ response.status = 200
    /\ request.session_id \in DOMAIN sessions_before
    /\ Len(sessions_before[request.session_id].history) = 3
    /\ Len(sessions[request.session_id].history) = 1
    /\ lastContent[request.session_id] = None

\* C21 as stated: every stored session has a menu cache with an entry for depth
\* 0, which is the menu its creation returned.
C21_RootMenuCached ==
    /\ \A id \in DOMAIN sessions :
           0 \in DOMAIN SessionGet(sessions[id], "menu_by_depth", <<>>)
    /\ (request.op = "create_session" /\ response.status = 201) =>
           SessionGet(sessions[response.session_id], "menu_by_depth", <<>>)[0] =
               response.menu_items

\* C21, amended: no stored session has a menu cache.  The menu its creation
\* returned is the session's current menu as long as the session is at depth
\* 0: a step that leaves it at depth 0 (a selection that fails or is refused,
\* a request for another id, a create) leaves that menu as it was, and the
\* first successful selection replaces it by the items the generator returned.
C21_RootMenuWhileAtRoot ==
    [][/\ \A id \in DOMAIN sessions' : DOMAIN sessions'[id] = SessionKeys
       /\ (request'.op = "create_session" /\ response'.status = 201) =>
              /\ NumSelections(sessions'[response'.session_id].history) = 0
              /\ sessions'[response'.session_id].current_menu = response'.menu_items
       /\ \A id \in DOMAIN sessions :
              NumSelections(sessions[id].history) = 0 =>
                  IF NumSelections(sessions'[id].history) = 0
                  THEN sessions'[id].current_menu = sessions[id].current_menu
                  ELSE /\ NumSelections(sessions'[id].history) = 1
                       /\ sessions'[id].current_menu = generator_return'.menu_items]_vars

\* a selection from the root failed in the generator and the session is still
\* at depth 0 with a menu and without a cache
C21_Witness ==
    /\ request.op = "select_menu_item"
    /\ request.session_id \in DOMAIN sessions
    /\ generator_call # NoCall
    /\ response.status >= 400
    /\ NumSelections(sessions[request.session_id].history) = 0
    /\ InCurrentMenu(request.selection, sessions[request.session_id].current_menu)
    /\ "menu_by_depth" \notin DOMAIN sessions[request.session_id]

\* C22: sessions are isolated.  A step, whatever request it serves and
\* however it ends, leaves every stored session that the request does not
\* name stored and exactly as it was; a create_session names none, so it
\* leaves every stored session as it was.
C22_SessionsIsolated ==
    [][\A id \in DOMAIN sessions :
          (request'.op = "create_session" \/ request'.session_id # id) =>
              /\ id \in DOMAIN sessions'
              /\ sessions'[id] = sessions[id]]_vars

\* two sessions are stored, the last request was a successful selection on one
\* of them, and the other one is in another state
C22_Witness ==
    /\ Cardinality(DOMAIN sessions) = 2
    /\ request.op = "select_menu_item"
    /\ response.status = 200
    /\ \E id \in DOMAIN sessions :
           /\ id # request.session_id
           /\ sessions[id] # sessions[request.session_id]

\* C23: select_menu_item checks in a fixed order and calls a generator only
\* once every check has passed.  An id that is not in the store is answered
\* SESSION_NOT_FOUND whatever the selection; for a stored id a selection that
\* is not in the current menu is answered INVALID_SELECTION; only a request
\* that passed both calls a generator, the one the depth decides on; and a
\* request answered SESSION_NOT_FOUND or INVALID_SELECTION called none.
C23_ChecksBeforeGenerator ==
    [][request'.op = "select_menu_item" =>
          LET id == request'.session_id
              known == id \in DOMAIN sessions
              offered == known /\ Contains(sessions[id].current_menu, request'.selection)
          IN  /\ ~known => response'.code = "SESSION_NOT_FOUND"
              /\ (known /\ ~offered) => response'.code = "INVALID_SELECTION"
              /\ (known /\ offered) =>
                     /\ response'.code \notin {"SESSION_NOT_FOUND", "INVALID_SELECTION"}
                     /\ generator_call'.fn =
                            (IF Len(sessions[id].history) < sessions[id].max_menu_depth
                             THEN "generate_submenu_with_ai"
                             ELSE "generate_content_and_further_topics")
              /\ generator_call' # NoCall => (known /\ offered)
              /\ response'.code \in {"SESSION_NOT_FOUND", "INVALID_SELECTION"} =>
                     (generator_call' = NoCall /\ generator_return' = NoReturn)]_vars

\* a request that names an unknown id, with a selection that no stored session
\* offers, was answered SESSION_NOT_FOUND and called no generator
C23_Witness ==
    /\ request.op = "select_menu_item"
    /\ request.session_id \notin DOMAIN sessions
    /\ DOMAIN sessions # {}
    /\ \A id \in DOMAIN sessions :
           ~Contains(sessions[id].current_menu, request.selection)
    /\ response.code = "SESSION_NOT_FOUND"
    /\ generator_call = NoCall

\* C24: when select_menu_item calls the content generator, the path it hands
\* over is the selections recorded in the session's history, in the order they
\* were made and without the topic entry, followed by the selection of this
\* request; the topic it hands over is the topic the session was created with,
\* which is also what the history's topic entry holds.
C24_ContentPath ==
    [][(request'.op = "select_menu_item"
          /\ generator_call' # NoCall
          /\ generator_call'.fn = "generate_content_and_further_topics") =>
          LET h == sessions[request'.session_id].history
              chosen == {i \in 1..Len(h) : h[i][1] = "menu_selection"}
              place(i) == Cardinality({j \in chosen : j <= i})
              path == generator_call'.selection_path
          IN  /\ Len(path) = Cardinality(chosen) + 1
              /\ \A i \in chosen : path[place(i)] = h[i][2]
              /\ path[Len(path)] = request'.selection
              /\ h[1][1] = "topic" /\ 1 \notin chosen
              /\ generator_call'.topic = h[1][2]
              /\ generator_call'.topic = sessions[request'.session_id].topic]_vars

\* the content generator was called with a path of three entries that differ
\* from the topic: two earlier selections and the one of the request
C24_Witness ==
    /\ request.op = "select_menu_item"
    /\ generator_call # NoCall
    /\ generator_call.fn = "generate_content_and_further_topics"
    /\ Len(generator_call.selection_path) = 3
    /\ generator_call.selection_path[3] = request.selection
    /\ generator_call.selection_path[1] # generator_call.selection_path[2]
    /\ generator_call.selection_path[1] # generator_call.topic

====
